---------------------------- MODULE Spec2Model ----------------------------
(***************************************************************************)
(* A model of src/main.py: BracketStructure (the bracket graph validator, *)
(* the winner-set derivation, the serialisation round trip) and            *)
(* BracketStructure.to_ascii_bracket (the tree layout and its cell writes).*)
(*                                                                         *)
(* A Python dict is modelled as a function together with the sequence of   *)
(* its keys in insertion order (the order .items() iterates in).  None is  *)
(* modelled as the integer Null, which is no game id and no team id.       *)
(***************************************************************************)
EXTENDS Integers, Sequences, FiniteSets, TLC

VARIABLES
    status,           \* "raw" (payload not yet validated), "ok", "invalid"
    final_game,       \* BracketStructure.final_game
    structure,        \* BracketStructure.structure : game id -> <<left, right>>
    structure_order,  \* insertion order of structure's keys
    games,            \* BracketStructure.games : game id -> <<left_team, right_team>>
    games_order,      \* insertion order of games' keys
    errors,           \* the list `errors` of the last _validate_bracket run
    ran,              \* the check groups the last _validate_bracket run executed
    original,         \* the first successfully constructed graph (history)
    json_dict,        \* the last to_json_dict() result
    trips,            \* number of serialise -> parse round trips made
    render            \* the outcome of the last to_ascii_bracket call

vars == <<status, final_game, structure, structure_order, games, games_order,
          errors, ran, original, json_dict, trips, render>>

----------------------------------------------------------------------------
(* Bounds of the model. *)

FirstId == 9          \* smallest game id used (ids then cross into two digits)
NumGames == 3         \* topologies have at most this many games
NumTeams == 2         \* team ids are 1..NumTeams
MaxRoundTrips == 2    \* serialise -> parse round trips followed
MaxNameWidth == 24    \* largest name_width passed to to_ascii_bracket
MaxNameLen == 24      \* length of the long team names in the roster
MaxAssigned == 3      \* the games dict of an assigned input has at most this many keys
MaxLeavesGames == 3   \* leaves of the valid trees given arbitrary assignments
MaxLeavesRender == 4  \* leaves of the valid trees that are rendered

Null == -1

GameIdRange == FirstId .. (FirstId + NumGames)
MissingId == FirstId + NumGames
TeamIds == 1 .. NumTeams

----------------------------------------------------------------------------
(* Generic helpers: Python built-ins used by the code. *)

Max(a, b) == IF a >= b THEN a ELSE b
Min(a, b) == IF a <= b THEN a ELSE b

SetMin(S) == CHOOSE x \in S : \A y \in S : x <= y

RECURSIVE SortedDesc(_)
SortedDesc(S) ==
    IF S = {} THEN <<>>
    ELSE LET m == CHOOSE x \in S : \A y \in S : x >= y
         IN <<m>> \o SortedDesc(S \ {m})

\* sorted(iterable of ints): ascending
RECURSIVE Sorted(_)
Sorted(S) ==
    IF S = {} THEN <<>>
    ELSE LET m == SetMin(S) IN <<m>> \o Sorted(S \ {m})

Range(s) == {s[i] : i \in 1..Len(s)}

\* dict.get(key, (None, None))
GetPair(d, key) == IF key \in DOMAIN d THEN d[key] ELSE <<Null, Null>>

----------------------------------------------------------------------------
(* Error messages.  Every message is a record of one shape:                *)
(*   kind  which f-string produced it                                     *)
(*   game  the game id the message names (Null when it names none)        *)
(*   arg   the count / team id / child id it prints (Null when none)      *)
(*   aux   the feeder game it prints (Null when none)                     *)
(*   list  the list it prints (<<>> when none)                            *)

Msg(kind, game, arg, aux, list) ==
    [kind |-> kind, game |-> game, arg |-> arg, aux |-> aux, list |-> list]

----------------------------------------------------------------------------
(* _validate_bracket, group by group.  Each group maps the accumulator     *)
(*   [errors, ran, counts, leaves]                                        *)
(* to the accumulator after the group.                                     *)

\* lines 243-246
FinalGameCheck(S, fg, acc) ==
    [acc EXCEPT
        !.ran = @ \cup {"final"},
        !.errors = IF fg \notin DOMAIN S
                   THEN Append(@, Msg("final_missing", fg, Null, Null, <<>>))
                   ELSE @]

\* ChildStep with the `continue` after the self-reference message left out
ChildStepCountsSelf(S, game_id, child, acc) ==
    IF child = game_id
    THEN [acc EXCEPT !.errors = Append(@, Msg("self", game_id, Null, Null, <<>>)),
                     !.counts[child] = @ + 1]
    ELSE IF child \notin DOMAIN S
    THEN [acc EXCEPT !.errors = Append(@, Msg("missing", game_id, child, Null, <<>>))]
    ELSE [acc EXCEPT !.counts[child] = @ + 1]

\* lines 270-281: one pass of `for child in (left, right)`
ChildStep(S, game_id, child, acc) ==
    IF child = game_id
    THEN [acc EXCEPT !.errors = Append(@, Msg("self", game_id, Null, Null, <<>>))]
    ELSE IF child \notin DOMAIN S
    THEN [acc EXCEPT !.errors = Append(@, Msg("missing", game_id, child, Null, <<>>))]
    ELSE [acc EXCEPT !.counts[child] = @ + 1]

\* lines 251-281: the body of `for game_id, inputs in self.structure.items()`
ShapeStep(S, game_id, acc) ==
    LET inputs == S[game_id]
        left == inputs[1]
        right == inputs[2]
    IN  IF Len(inputs) # 2
        THEN [acc EXCEPT !.errors = Append(@, Msg("slots", game_id, Len(inputs), Null, <<>>))]
        ELSE IF left = Null /\ right = Null
        THEN [acc EXCEPT !.leaves = @ + 1]
        ELSE IF left = Null \/ right = Null
        THEN [acc EXCEPT !.errors = Append(@, Msg("mixed", game_id, Null, Null, inputs))]
        ELSE ChildStep(S, game_id, right, ChildStep(S, game_id, left, acc))

RECURSIVE ShapeLoop(_, _, _, _)
ShapeLoop(S, order, i, acc) ==
    IF i > Len(order) THEN acc
    ELSE ShapeLoop(S, order, i + 1, ShapeStep(S, order[i], acc))

\* lines 248-281
ShapeCheck(S, order, acc) ==
    LET start == [acc EXCEPT !.ran = @ \cup {"shape"},
                             !.counts = [g \in DOMAIN S |-> 0],
                             !.leaves = 0]
    IN  ShapeLoop(S, order, 1, start)

\* lines 283-286
LeafCheck(acc) ==
    [acc EXCEPT
        !.ran = @ \cup {"leaf"},
        !.errors = IF acc.leaves = 0
                   THEN Append(@, Msg("noleaf", Null, Null, Null, <<>>))
                   ELSE @]

\* FanInStep with the non-final test weakened to "referenced by no game"
FanInStepOrphansOnly(fg, game_id, count, acc) ==
    IF game_id = fg
    THEN IF count # 0
         THEN [acc EXCEPT !.errors = Append(@, Msg("fanin_final", game_id, count, Null, <<>>))]
         ELSE acc
    ELSE IF count = 0
         THEN [acc EXCEPT !.errors = Append(@, Msg("fanin", game_id, count, Null, <<>>))]
         ELSE acc

\* lines 289-297: the body of `for game_id, count in incoming_counts.items()`
FanInStep(fg, game_id, count, acc) ==
    IF game_id = fg
    THEN IF count # 0
         THEN [acc EXCEPT !.errors = Append(@, Msg("fanin_final", game_id, count, Null, <<>>))]
         ELSE acc
    ELSE IF count # 1
         THEN [acc EXCEPT !.errors = Append(@, Msg("fanin", game_id, count, Null, <<>>))]
         ELSE acc

RECURSIVE FanInLoop(_, _, _, _)
FanInLoop(fg, order, i, acc) ==
    IF i > Len(order) THEN acc
    ELSE FanInLoop(fg, order, i + 1, FanInStep(fg, order[i], acc.counts[order[i]], acc))

\* lines 288-297
FanInCheck(fg, order, acc) ==
    FanInLoop(fg, order, 1, [acc EXCEPT !.ran = @ \cup {"fanin"}])

\* lines 300-314: the body of `for game_id, teams in self.games.items()`
AssignStep(S, G, game_id, acc) ==
    IF game_id \notin DOMAIN S
    THEN [acc EXCEPT !.errors = Append(@, Msg("unknown_game", game_id, Null, Null, <<>>))]
    ELSE LET left_team == G[game_id][1]
             right_team == G[game_id][2]
         IN  IF left_team # Null /\ right_team # Null /\ left_team = right_team
             THEN [acc EXCEPT !.errors =
                        Append(@, Msg("duplicate", game_id, left_team, Null, <<>>))]
             ELSE acc

RECURSIVE AssignLoop(_, _, _, _, _)
AssignLoop(S, G, gorder, i, acc) ==
    IF i > Len(gorder) THEN acc
    ELSE AssignLoop(S, G, gorder, i + 1, AssignStep(S, G, gorder[i], acc))

\* AssignCheck skipped once an earlier group has found an error
AssignCheckShortCircuit(S, G, gorder, acc) ==
    IF acc.errors = <<>>
    THEN AssignLoop(S, G, gorder, 1, [acc EXCEPT !.ran = @ \cup {"assign"}])
    ELSE acc

\* lines 299-314
AssignCheck(S, G, gorder, acc) ==
    AssignLoop(S, G, gorder, 1, [acc EXCEPT !.ran = @ \cup {"assign"}])

----------------------------------------------------------------------------
(* Cycle / reachability: the nested dfs of _validate_bracket.  The state   *)
(* threaded through the recursion is [visiting, visited, errors].          *)

RECURSIVE Dfs(_, _, _)
\* lines 328-330: `if child is not None and child in self.structure: dfs(child)`
DfsChild(S, child, st) ==
    IF child # Null /\ child \in DOMAIN S THEN Dfs(S, child, st) ELSE st

\* Dfs with one `seen` test: a node on the stack is skipped like a finished one
DfsNoStackTest(S, node, st) ==
    IF node \in st.visiting \/ node \in st.visited
    THEN st
    ELSE LET entered == [st EXCEPT !.visiting = @ \cup {node}]
             afterLeft == DfsChild(S, S[node][1], entered)
             afterRight == DfsChild(S, S[node][2], afterLeft)
         IN  [afterRight EXCEPT !.visiting = @ \ {node},
                                !.visited = @ \cup {node}]

\* lines 320-332
Dfs(S, node, st) ==
    IF node \in st.visiting
    THEN [st EXCEPT !.errors = Append(@, Msg("cycle", node, Null, Null, <<>>))]
    ELSE IF node \in st.visited
    THEN st
    ELSE LET entered == [st EXCEPT !.visiting = @ \cup {node}]
             afterLeft == DfsChild(S, S[node][1], entered)
             afterRight == DfsChild(S, S[node][2], afterLeft)
         IN  [afterRight EXCEPT !.visiting = @ \ {node},
                                !.visited = @ \cup {node}]

\* UnreachableReport printing the set unsorted-by-value (largest first)
UnreachableReportUnsorted(S, fg, visited, errs) ==
    LET unreachable == DOMAIN S \ visited
    IN  IF unreachable # {}
        THEN Append(errs, Msg("unreachable", fg, Null, Null, SortedDesc(unreachable)))
        ELSE errs

\* lines 336-341
UnreachableReport(S, fg, visited, errs) ==
    LET unreachable == DOMAIN S \ visited
    IN  IF unreachable # {}
        THEN Append(errs, Msg("unreachable", fg, Null, Null, Sorted(unreachable)))
        ELSE errs

\* lines 316-341
ReachCheck(S, fg, acc) ==
    IF fg \in DOMAIN S
    THEN LET done == Dfs(S, fg, [visiting |-> {}, visited |-> {}, errors |-> acc.errors])
         IN  [acc EXCEPT !.ran = @ \cup {"reach"},
                         !.errors = UnreachableReport(S, fg, done.visited, done.errors)]
    ELSE acc

----------------------------------------------------------------------------
(* _possible_winners (lines 188-220).  The result is [res, cache]: the     *)
(* candidate set and the memo dict after the call.                         *)

RECURSIVE PossibleWinners(_, _, _, _)
PossibleWinners(S, G, game_id, cache) ==
    IF game_id \in DOMAIN cache
    THEN [res |-> cache[game_id], cache |-> cache]
    ELSE LET left_feeder == S[game_id][1]
             right_feeder == S[game_id][2]
             left_team == GetPair(G, game_id)[1]
             right_team == GetPair(G, game_id)[2]
         IN  IF left_feeder = Null /\ right_feeder = Null
             THEN LET candidates == (IF left_team # Null THEN {left_team} ELSE {})
                                    \cup (IF right_team # Null THEN {right_team} ELSE {})
                  IN  [res |-> candidates,
                       cache |-> (game_id :> candidates) @@ cache]
             ELSE LET l == IF left_team # Null
                           THEN [res |-> {left_team}, cache |-> cache]
                           ELSE PossibleWinners(S, G, left_feeder, cache)
                      r == IF right_team # Null
                           THEN [res |-> {right_team}, cache |-> l.cache]
                           ELSE PossibleWinners(S, G, right_feeder, l.cache)
                      candidates == l.res \cup r.res
                  IN  [res |-> candidates,
                       cache |-> (game_id :> candidates) @@ r.cache]

\* the public query: a call with no cache argument
possibleWinners(S, G, game_id) == PossibleWinners(S, G, game_id, <<>>).res

----------------------------------------------------------------------------
(* Derivability (lines 343-365).  The accumulator is [errors, cache].      *)

\* DeriveSide testing the team against the other side's feeder
DeriveSideOtherFeeder(S, G, game_id, side, st) ==
    LET team == GetPair(G, game_id)[side]
        feeder == S[game_id][3 - side]
    IN  IF team # Null
        THEN LET pw == PossibleWinners(S, G, feeder, st.cache)
             IN  [cache |-> pw.cache,
                  errors |-> IF team \notin pw.res
                             THEN Append(st.errors,
                                         Msg(IF side = 1 THEN "not_derivable_left"
                                                         ELSE "not_derivable_right",
                                             game_id, team, feeder, Sorted(pw.res)))
                             ELSE st.errors]
        ELSE st

\* lines 351-357 (side 1) and 359-365 (side 2)
DeriveSide(S, G, game_id, side, st) ==
    LET team == GetPair(G, game_id)[side]
        feeder == S[game_id][side]
    IN  IF team # Null
        THEN LET pw == PossibleWinners(S, G, feeder, st.cache)
             IN  [cache |-> pw.cache,
                  errors |-> IF team \notin pw.res
                             THEN Append(st.errors,
                                         Msg(IF side = 1 THEN "not_derivable_left"
                                                         ELSE "not_derivable_right",
                                             game_id, team, feeder, Sorted(pw.res)))
                             ELSE st.errors]
        ELSE st

\* DeriveStep testing the left slot only
DeriveStepLeftOnly(S, G, game_id, st) ==
    IF S[game_id][1] = Null /\ S[game_id][2] = Null
    THEN st
    ELSE DeriveSide(S, G, game_id, 1, st)

\* lines 345-365: the body of the loop
DeriveStep(S, G, game_id, st) ==
    IF S[game_id][1] = Null /\ S[game_id][2] = Null
    THEN st
    ELSE DeriveSide(S, G, game_id, 2, DeriveSide(S, G, game_id, 1, st))

RECURSIVE DeriveLoop(_, _, _, _, _)
DeriveLoop(S, G, order, i, st) ==
    IF i > Len(order) THEN st
    ELSE DeriveLoop(S, G, order, i + 1, DeriveStep(S, G, order[i], st))

\* lines 343-365
DeriveCheck(S, G, order, acc) ==
    IF acc.errors = <<>>
    THEN [acc EXCEPT !.ran = @ \cup {"derive"},
                     !.errors = DeriveLoop(S, G, order, 1,
                                           [errors |-> acc.errors, cache |-> <<>>]).errors]
    ELSE acc

----------------------------------------------------------------------------
\* _validate_bracket (lines 238-370): the groups in the order the code runs them
ValidateBracket(S, order, fg, G, gorder) ==
    LET a0 == [errors |-> <<>>, ran |-> {}, counts |-> <<>>, leaves |-> 0]
        a1 == FinalGameCheck(S, fg, a0)
        a2 == ShapeCheck(S, order, a1)
        a3 == LeafCheck(a2)
        a4 == FanInCheck(fg, order, a3)
        a5 == AssignCheck(S, G, gorder, a4)
        a6 == ReachCheck(S, fg, a5)
    IN  DeriveCheck(S, G, order, a6)


----------------------------------------------------------------------------
(* Serialisation: to_json_dict (lines 40-49) and the parse of that record  *)
(* back into a BracketStructure (the field types of lines 31-33, then the  *)
(* model validator).  A str is a sequence of one-character strings.        *)

DigitChars == <<"0", "1", "2", "3", "4", "5", "6", "7", "8", "9">>

\* NatToStr emitting the digits least significant first
RECURSIVE NatToStrReversed(_)
NatToStrReversed(n) ==
    IF n < 10 THEN <<DigitChars[n + 1]>>
    ELSE <<DigitChars[(n % 10) + 1]>> \o NatToStrReversed(n \div 10)

RECURSIVE NatToStr(_)
NatToStr(n) ==
    IF n < 10 THEN <<DigitChars[n + 1]>>
    ELSE NatToStr(n \div 10) \o <<DigitChars[(n % 10) + 1]>>

\* str(game) for an int
IntToStr(n) == IF n < 0 THEN <<"-">> \o NatToStr(0 - n) ELSE NatToStr(n)

\* list(inputs): a fresh list with the tuple's items
ListOf(t) == [i \in 1..Len(t) |-> t[i]]

\* the last key in insertion order whose str() is k (a dict comprehension
\* keeps the last value written under a key)
LastWithStr(order, k) ==
    LET idx == CHOOSE i \in 1..Len(order) :
                   /\ IntToStr(order[i]) = k
                   /\ \A j \in (i + 1)..Len(order) : IntToStr(order[j]) # k
    IN  order[idx]

\* {str(game): list(inputs) for game, inputs in d.items()}
StrKeyed(d, order) ==
    [k \in {IntToStr(g) : g \in DOMAIN d} |-> ListOf(d[LastWithStr(order, k)])]

RECURSIVE StrKeyOrder(_, _)
StrKeyOrder(order, seen) ==
    IF order = <<>> THEN <<>>
    ELSE LET k == IntToStr(Head(order))
         IN  IF k \in seen THEN StrKeyOrder(Tail(order), seen)
             ELSE <<k>> \o StrKeyOrder(Tail(order), seen \cup {k})

\* to_json_dict (lines 40-49)
to_json_dict(fg, S, order, G, gorder) ==
    [present |-> TRUE,
     final_game |-> fg,
     structure |-> StrKeyed(S, order),
     structure_order |-> StrKeyOrder(order, {}),
     games |-> StrKeyed(G, gorder),
     games_order |-> StrKeyOrder(gorder, {})]

NoJson ==
    [present |-> FALSE, final_game |-> Null, structure |-> <<>>,
     structure_order |-> <<>>, games |-> <<>>, games_order |-> <<>>]

DigitValue(c) == (CHOOSE i \in 1..10 : DigitChars[i] = c) - 1

IsDigits(s) == Len(s) > 0 /\ \A i \in 1..Len(s) : \E j \in 1..10 : DigitChars[j] = s[i]

RECURSIVE DigitsToNat(_)
DigitsToNat(s) ==
    IF Len(s) = 0 THEN 0
    ELSE 10 * DigitsToNat(SubSeq(s, 1, Len(s) - 1)) + DigitValue(s[Len(s)])

\* whether a str key is accepted for an int-keyed field
IsIntStr(s) ==
    IF Len(s) > 0 /\ s[1] = "-" THEN IsDigits(Tail(s)) ELSE IsDigits(s)

\* the int a str key is read as
StrToInt(s) == IF s[1] = "-" THEN 0 - DigitsToNat(Tail(s)) ELSE DigitsToNat(s)

\* the last str key in insertion order that reads as the int g
LastWithInt(korder, g) ==
    LET idx == CHOOSE i \in 1..Len(korder) :
                   /\ StrToInt(korder[i]) = g
                   /\ \A j \in (i + 1)..Len(korder) : StrToInt(korder[j]) # g
    IN  korder[idx]

\* dict[int, tuple[int | None, int | None]] read from a str-keyed dict of lists
IntKeyed(d, korder) ==
    [g \in {StrToInt(k) : k \in DOMAIN d} |->
        LET v == d[LastWithInt(korder, g)] IN <<v[1], v[2]>>]

RECURSIVE IntKeyOrder(_, _)
IntKeyOrder(korder, seen) ==
    IF korder = <<>> THEN <<>>
    ELSE LET g == StrToInt(Head(korder))
         IN  IF g \in seen THEN IntKeyOrder(Tail(korder), seen)
             ELSE <<g>> \o IntKeyOrder(Tail(korder), seen \cup {g})

\* whether the record has the declared field types (lines 31-33)
FieldsParse(j) ==
    /\ \A k \in DOMAIN j.structure : IsIntStr(k) /\ Len(j.structure[k]) = 2
    /\ \A k \in DOMAIN j.games : IsIntStr(k) /\ Len(j.games[k]) = 2

\* the fields of the BracketStructure read from the record
ParsedFields(j) ==
    [final_game |-> j.final_game,
     structure |-> IntKeyed(j.structure, j.structure_order),
     structure_order |-> IntKeyOrder(j.structure_order, {}),
     games |-> IntKeyed(j.games, j.games_order),
     games_order |-> IntKeyOrder(j.games_order, {})]

\* value equality of two BracketStructure objects: the three fields
GraphOf(fg, S, G) == [final_game |-> fg, structure |-> S, games |-> G]

NoGraph == [set |-> FALSE, graph |-> GraphOf(Null, <<>>, <<>>)]


----------------------------------------------------------------------------
(* to_ascii_bracket (lines 54-186).  A team name is a str; the roster is   *)
(* the dict team_names (team id -> name).  Sides are 0 (left) and 1        *)
(* (right), as in the code.                                                *)

segment_width == 12

\* lines 66-70: one pass of the loop filling parent_by_game
ParentStep(S, parent_game, pbg) ==
    LET left_child == S[parent_game][1]
        right_child == S[parent_game][2]
        withLeft == IF left_child # Null
                    THEN (left_child :> <<parent_game, 0>>) @@ pbg
                    ELSE pbg
    IN  IF right_child # Null
        THEN (right_child :> <<parent_game, 1>>) @@ withLeft
        ELSE withLeft

RECURSIVE ParentLoop(_, _, _, _)
ParentLoop(S, order, i, pbg) ==
    IF i > Len(order) THEN pbg
    ELSE ParentLoop(S, order, i + 1, ParentStep(S, order[i], pbg))

\* lines 65-70
parent_by_game(S, order) == ParentLoop(S, order, 1, <<>>)

\* lines 74-84 (round_cache only memoises the value computed here)
RECURSIVE game_round(_, _)
game_round(S, game_id) ==
    LET left_child == S[game_id][1]
        right_child == S[game_id][2]
    IN  IF left_child = Null /\ right_child = Null
        THEN 0
        ELSE 1 + Max(game_round(S, left_child), game_round(S, right_child))

\* assign_positions descending into the right feeder before the left one
RECURSIVE assign_positions_right_first(_, _, _)
assign_positions_right_first(S, game_id, st) ==
    LET left_child == S[game_id][1]
        right_child == S[game_id][2]
    IN  IF left_child = Null /\ right_child = Null
        THEN LET top == st.leaf_cursor + 1
                 bottom == st.leaf_cursor + 3
             IN  [slot_y |-> (<<game_id, 0>> :> top) @@ (<<game_id, 1>> :> bottom)
                                @@ st.slot_y,
                  center_y |-> (game_id :> (top + 1)) @@ st.center_y,
                  leaf_cursor |-> st.leaf_cursor + 5]
        ELSE LET afterLeft == assign_positions_right_first(S, left_child,
                                  assign_positions_right_first(S, right_child, st))
                 left_center == afterLeft.center_y[left_child]
                 right_center == afterLeft.center_y[right_child]
             IN  [slot_y |-> (<<game_id, 0>> :> left_center)
                                @@ (<<game_id, 1>> :> right_center)
                                @@ afterLeft.slot_y,
                  center_y |-> (game_id :> ((left_center + right_center + 1) \div 2))
                                @@ afterLeft.center_y,
                  leaf_cursor |-> afterLeft.leaf_cursor]

\* assign_positions reserving for each feeder the row of the feeder's top
\* slot instead of the feeder's center row
RECURSIVE assign_positions_feeder_top(_, _, _)
assign_positions_feeder_top(S, game_id, st) ==
    LET left_child == S[game_id][1]
        right_child == S[game_id][2]
    IN  IF left_child = Null /\ right_child = Null
        THEN LET top == st.leaf_cursor + 1
                 bottom == st.leaf_cursor + 3
             IN  [slot_y |-> (<<game_id, 0>> :> top) @@ (<<game_id, 1>> :> bottom)
                                @@ st.slot_y,
                  center_y |-> (game_id :> (top + 1)) @@ st.center_y,
                  leaf_cursor |-> st.leaf_cursor + 5]
        ELSE LET afterRight == assign_positions_feeder_top(S, right_child,
                                   assign_positions_feeder_top(S, left_child, st))
                 left_center == afterRight.slot_y[<<left_child, 0>>]
                 right_center == afterRight.slot_y[<<right_child, 0>>]
             IN  [slot_y |-> (<<game_id, 0>> :> left_center)
                                @@ (<<game_id, 1>> :> right_center)
                                @@ afterRight.slot_y,
                  center_y |-> (game_id :> ((left_center + right_center + 1) \div 2))
                                @@ afterRight.center_y,
                  leaf_cursor |-> afterRight.leaf_cursor]

\* lines 94-112; the state is [slot_y, center_y, leaf_cursor]
RECURSIVE assign_positions(_, _, _)
assign_positions(S, game_id, st) ==
    LET left_child == S[game_id][1]
        right_child == S[game_id][2]
    IN  IF left_child = Null /\ right_child = Null
        THEN LET top == st.leaf_cursor + 1
                 bottom == st.leaf_cursor + 3
             IN  [slot_y |-> (<<game_id, 0>> :> top) @@ (<<game_id, 1>> :> bottom)
                                @@ st.slot_y,
                  center_y |-> (game_id :> (top + 1)) @@ st.center_y,
                  leaf_cursor |-> st.leaf_cursor + 5]
        ELSE LET afterRight == assign_positions(S, right_child,
                                   assign_positions(S, left_child, st))
                 left_center == afterRight.center_y[left_child]
                 right_center == afterRight.center_y[right_child]
             IN  [slot_y |-> (<<game_id, 0>> :> left_center)
                                @@ (<<game_id, 1>> :> right_center)
                                @@ afterRight.slot_y,
                  center_y |-> (game_id :> ((left_center + right_center + 1) \div 2))
                                @@ afterRight.center_y,
                  leaf_cursor |-> afterRight.leaf_cursor]

\* lines 132-143
Glyphs(mode) ==
    IF mode = "ascii"
    THEN [h_char |-> "-", v_char |-> "|", top_junc |-> "+",
          bottom_junc |-> "+", tee_char |-> "|"]
    ELSE [h_char |-> "U+2500", v_char |-> "U+2502", top_junc |-> "U+256E",
          bottom_junc |-> "U+256F", tee_char |-> "U+251C"]

\* lines 145-149
format_team(team_names, team_id, name_width) ==
    IF team_id = Null THEN <<>>
    ELSE LET name == IF team_id \in DOMAIN team_names
                     THEN team_names[team_id]
                     ELSE <<"#">> \o IntToStr(team_id)
         IN  SubSeq(name, 1, Min(Len(name), name_width))

\* A call put(x, y, ch) is the triple <<x, y, ch>>.
\* lines 124-126: the put calls of put_hline(x1, x2, y, ch)
put_hline(x1, x2, y, ch) ==
    [i \in 1..Max(0, x2 - x1 + 1) |-> <<x1 + i - 1, y, ch>>]

\* lines 128-130: the put calls of put_text(x, y, text)
put_text(x, y, text) == [i \in 1..Len(text) |-> <<x + i - 1, y, text[i]>>]

\* lines 170-171: the put calls of the vertical fill
VerticalPuts(x, y_top, y_bottom, ch) ==
    LET lo == Min(y_top, y_bottom) + 1
        hi == Max(y_top, y_bottom)
    IN  [i \in 1..Max(0, hi - lo) |-> <<x, lo + i - 1, ch>>]

\* lines 153-183: the put calls made for one game, in order
GamePuts(S, G, fg, pbg, pos, team_names, name_width, gl, game_id) ==
    LET label_width == name_width + 1
        r == game_round(S, game_id)
        x_junc == label_width + (r * segment_width)
        x_conn_start == IF r = 0 THEN 0 ELSE x_junc - 11
        x_label == x_conn_start
        y_top == pos.slot_y[<<game_id, 0>>]
        y_bottom == pos.slot_y[<<game_id, 1>>]
        left_team == GetPair(G, game_id)[1]
        right_team == GetPair(G, game_id)[2]
        labels == (IF y_top - 1 >= 0
                   THEN put_text(x_label, y_top - 1,
                                 format_team(team_names, left_team, name_width))
                   ELSE <<>>)
                  \o (IF y_bottom - 1 >= 0
                      THEN put_text(x_label, y_bottom - 1,
                                    format_team(team_names, right_team, name_width))
                      ELSE <<>>)
        elbow == put_hline(x_conn_start, x_junc - 1, y_top, gl.h_char)
                 \o put_hline(x_conn_start, x_junc - 1, y_bottom, gl.h_char)
                 \o << <<x_junc, y_top, gl.top_junc>> >>
                 \o << <<x_junc, y_bottom, gl.bottom_junc>> >>
                 \o VerticalPuts(x_junc, y_top, y_bottom, gl.v_char)
        bridge == IF game_id \in DOMAIN pbg
                  THEN LET parent_game == pbg[game_id][1]
                           side == pbg[game_id][2]
                           parent_round == game_round(S, parent_game)
                           parent_x_junc == label_width + (parent_round * segment_width)
                           parent_x_conn_start == parent_x_junc - 11
                           target_y == pos.slot_y[<<parent_game, side>>]
                       IN  IF target_y = pos.center_y[game_id]
                           THEN << <<x_junc, target_y, gl.tee_char>> >>
                                \o put_hline(x_junc + 1, parent_x_conn_start - 1,
                                             target_y, gl.h_char)
                           ELSE <<>>
                  ELSE IF game_id = fg
                  THEN put_hline(x_junc + 1, x_junc + 11, pos.center_y[game_id], gl.h_char)
                  ELSE <<>>
    IN  labels \o elbow \o bridge

\* line 151: sorted(self.structure.keys(), key=lambda g: (game_round(g), g))
RECURSIVE game_order(_, _)
game_order(S, todo) ==
    IF todo = {} THEN <<>>
    ELSE LET g == CHOOSE a \in todo : \A b \in todo :
                      \/ game_round(S, a) < game_round(S, b)
                      \/ (game_round(S, a) = game_round(S, b) /\ a <= b)
         IN  <<g>> \o game_order(S, todo \ {g})

RECURSIVE AllPuts(_, _, _, _, _, _, _, _, _, _)
AllPuts(S, G, fg, pbg, pos, team_names, name_width, gl, order, i) ==
    IF i > Len(order) THEN <<>>
    ELSE GamePuts(S, G, fg, pbg, pos, team_names, name_width, gl, order[i])
         \o AllPuts(S, G, fg, pbg, pos, team_names, name_width, gl, order, i + 1)

\* lines 120-122: whether put(x, y, ch) writes the cell (otherwise it is dropped)
InCanvas(p, max_x, max_y) == 0 <= p[1] /\ p[1] < max_x /\ 0 <= p[2] /\ p[2] < max_y

NoRender ==
    [status |-> "none", mode |-> "", name_width |-> 0, glyphs |-> Glyphs("ascii"),
     max_x |-> 0, max_y |-> 0, slot_y |-> <<>>, center_y |-> <<>>,
     nputs |-> 0, dropped |-> {}]

\* to_ascii_bracket (lines 54-186): what the call leaves behind.  status is
\* "raised" (ValueError, nothing returned) or "returned"; dropped is the set
\* of put calls the bounds check of put discarded.
to_ascii_bracket(S, order, fg, G, team_names, name_width, mode) ==
    IF name_width <= 0
    THEN [NoRender EXCEPT !.status = "raised", !.mode = mode, !.name_width = name_width]
    ELSE LET pbg == parent_by_game(S, order)
             max_round == game_round(S, fg)
             label_width == name_width + 1
             pos == assign_positions(S, fg,
                        [slot_y |-> <<>>, center_y |-> <<>>, leaf_cursor |-> 0])
             max_y == pos.leaf_cursor
             max_x == label_width + max_round * segment_width + 12
             gl == Glyphs(mode)
             puts == AllPuts(S, G, fg, pbg, pos, team_names, name_width, gl,
                             game_order(S, DOMAIN S), 1)
         IN  [status |-> "returned", mode |-> mode, name_width |-> name_width,
              glyphs |-> gl, max_x |-> max_x, max_y |-> max_y,
              slot_y |-> pos.slot_y, center_y |-> pos.center_y,
              nputs |-> Len(puts),
              dropped |-> {puts[i] : i \in {j \in 1..Len(puts) :
                                            ~InCanvas(puts[j], max_x, max_y)}}]


----------------------------------------------------------------------------
(* The inputs.  A payload is [final_game, structure, structure_order,      *)
(* games, games_order].                                                    *)

KeysUpTo(n) == FirstId .. (FirstId + n - 1)

\* a feeder slot of an n-game payload: None, a key, or one id that is no key
FeederValues(n) == {Null} \cup (FirstId .. (FirstId + n))

TeamSlots == TeamIds \cup {Null}
TeamPairs == TeamSlots \X TeamSlots

\* the insertion orders tried for a dict with key set K
KeyOrders(K) == {Sorted(K), SortedDesc(K)}

\* every topology over the first n ids, n <= maxN, with every final_game
Topologies(maxN) ==
    UNION {[fg : FirstId .. (FirstId + n),
            S : [KeysUpTo(n) -> FeederValues(n) \X FeederValues(n)]] : n \in 1..maxN}

\* every games dict with at most maxEntries keys among ids
Assignments(ids, maxEntries) ==
    UNION {[K -> TeamPairs] : K \in {k \in SUBSET ids : Cardinality(k) <= maxEntries}}

\* the leaf `leaf` of tree t replaced by an internal game over two new leaves
Expand(t, leaf, a, b) ==
    [fg |-> t.fg,
     S |-> (leaf :> <<a, b>>) @@ (a :> <<Null, Null>>) @@ (b :> <<Null, Null>>) @@ t.S]

LeavesOf(S) == {g \in DOMAIN S : S[g] = <<Null, Null>>}

\* the valid trees with k internal games, ids handed out in growth order from
\* FirstId upwards
RECURSIVE GrownTrees(_)
GrownTrees(k) ==
    IF k = 0 THEN {[fg |-> FirstId, S |-> (FirstId :> <<Null, Null>>)]}
    ELSE LET a == FirstId + 2 * k - 1
             b == FirstId + 2 * k
         IN  {Expand(x[1], x[2], a, b) :
                  x \in {y \in GrownTrees(k - 1) \X KeysUpTo(2 * k - 1) :
                            y[2] \in LeavesOf(y[1].S)}}

\* the same tree with the ids reversed (the final game gets the largest id)
Relabel(t) ==
    LET hi == FirstId + Cardinality(DOMAIN t.S) - 1
        m(g) == IF g = Null THEN Null ELSE FirstId + hi - g
    IN  [fg |-> m(t.fg),
         S |-> [g \in DOMAIN t.S |-> <<m(t.S[m(g)][1]), m(t.S[m(g)][2])>>]]

\* the valid trees with at most maxLeaves leaves
ValidTrees(maxLeaves) ==
    UNION {GrownTrees(k) \cup {Relabel(t) : t \in GrownTrees(k)} : k \in 0..(maxLeaves - 1)}

\* assignments that give every game of K the same pair
UniformGames(S) ==
    {[g \in K |-> p] : K \in {{}, LeavesOf(S), DOMAIN S},
                       p \in {<<1, 2>>, <<1, Null>>, <<Null, 2>>}}

LongName == [i \in 1..MaxNameLen |-> "A"]

\* the rosters passed to to_ascii_bracket, as the dict team_names
Rosters == {<<>>, [t \in TeamIds |-> LongName]}

Modes == {"ascii", "box", "unicode"}

NameWidths == {0, 1, 10, MaxNameWidth}

----------------------------------------------------------------------------
(* The state machine. *)

InitRest ==
    /\ status = "raw"
    /\ errors = <<>>
    /\ ran = {}
    /\ original = NoGraph
    /\ json_dict = NoJson
    /\ trips = 0
    /\ render = NoRender

\* every topology of at most NumGames games, with no assignments
Init ==
    /\ \E t \in Topologies(NumGames) :
          /\ final_game = t.fg
          /\ structure = t.S
          /\ structure_order \in KeyOrders(DOMAIN t.S)
    /\ games = <<>>
    /\ games_order = <<>>
    /\ InitRest

\* valid trees with arbitrary assignments, and small topologies with at most
\* one assignment (possibly under an id that is no game)
InitGames ==
    /\ \/ \E t \in ValidTrees(MaxLeavesGames) :
             /\ final_game = t.fg
             /\ structure = t.S
             /\ structure_order = Sorted(DOMAIN t.S)
             /\ games \in Assignments(DOMAIN t.S, MaxAssigned)
       \/ \E t \in Topologies(NumGames - 1) :
             /\ final_game = t.fg
             /\ structure = t.S
             /\ structure_order \in KeyOrders(DOMAIN t.S)
             /\ games \in Assignments(DOMAIN t.S \cup {MissingId}, 1)
    /\ games_order \in KeyOrders(DOMAIN games)
    /\ InitRest

\* valid trees with uniform assignments, to be rendered
InitRender ==
    /\ \E t \in ValidTrees(MaxLeavesRender) :
          /\ final_game = t.fg
          /\ structure = t.S
          /\ structure_order = Sorted(DOMAIN t.S)
          /\ games \in UniformGames(t.S)
    /\ games_order = Sorted(DOMAIN games)
    /\ InitRest

\* BracketStructure(final_game=..., structure=..., games=...): the model
\* validator runs on the payload
Construct ==
    /\ status = "raw"
    /\ LET v == ValidateBracket(structure, structure_order, final_game, games, games_order)
       IN  /\ errors' = v.errors
           /\ ran' = v.ran
           /\ status' = IF v.errors = <<>> THEN "ok" ELSE "invalid"
           /\ original' = IF v.errors = <<>>
                          THEN [set |-> TRUE, graph |-> GraphOf(final_game, structure, games)]
                          ELSE original
    /\ UNCHANGED <<final_game, structure, structure_order, games, games_order,
                   json_dict, trips, render>>

\* bracket.to_json_dict()
ToJsonDict ==
    /\ status = "ok"
    /\ trips < MaxRoundTrips
    /\ render.status = "none"
    /\ ~json_dict.present
    /\ json_dict' = to_json_dict(final_game, structure, structure_order, games, games_order)
    /\ UNCHANGED <<status, final_game, structure, structure_order, games, games_order,
                   errors, ran, original, trips, render>>

\* BracketStructure.model_validate(record): the fields are read by their
\* declared types, then the model validator runs; the new object replaces
\* the one at hand
Parse ==
    /\ status = "ok"
    /\ json_dict.present
    /\ trips < MaxRoundTrips
    /\ IF FieldsParse(json_dict)
       THEN LET f == ParsedFields(json_dict)
                v == ValidateBracket(f.structure, f.structure_order, f.final_game,
                                     f.games, f.games_order)
            IN  /\ final_game' = f.final_game
                /\ structure' = f.structure
                /\ structure_order' = f.structure_order
                /\ games' = f.games
                /\ games_order' = f.games_order
                /\ errors' = v.errors
                /\ ran' = v.ran
                /\ status' = IF v.errors = <<>> THEN "ok" ELSE "invalid"
       ELSE /\ status' = "invalid"
            /\ errors' = <<Msg("field_type", Null, Null, Null, <<>>)>>
            /\ ran' = {}
            /\ UNCHANGED <<final_game, structure, structure_order, games, games_order>>
    /\ trips' = trips + 1
    /\ json_dict' = NoJson
    /\ UNCHANGED <<original, render>>

\* bracket.to_ascii_bracket(teams, name_width, mode=mode); a run of the model
\* ends with its first rendering
Render ==
    /\ status = "ok"
    /\ render.status = "none"
    /\ ~json_dict.present
    /\ \E team_names \in Rosters, name_width \in NameWidths, mode \in Modes :
          render' = to_ascii_bracket(structure, structure_order, final_game, games,
                                     team_names, name_width, mode)
    /\ UNCHANGED <<status, final_game, structure, structure_order, games, games_order,
                   errors, ran, original, json_dict, trips>>

Next == Construct \/ ToJsonDict \/ Parse \/ Render

Spec == Init /\ [][Next]_vars

\* construction and the round trip only
NextData == Construct \/ ToJsonDict \/ Parse

SpecGames == InitGames /\ [][NextData]_vars

SpecRender == InitRender /\ [][Next]_vars


----------------------------------------------------------------------------
(* Graph notions the claims are stated in, defined on the topology alone.  *)

\* the games g lists as feeders (feeder edges g -> child)
Feeders(S, g) == {S[g][1], S[g][2]} \cap DOMAIN S

\* the games reachable from a game of `from` along one or more feeder edges
RECURSIVE ReachedBy(_, _, _)
ReachedBy(S, frontier, seen) ==
    LET next == UNION {Feeders(S, g) : g \in frontier}
    IN  IF next \subseteq seen THEN seen
        ELSE ReachedBy(S, next \ seen, seen \cup next)

Descendants(S, g) == IF g \in DOMAIN S THEN ReachedBy(S, {g}, {}) ELSE {}

\* the games that lie on a feeder cycle
OnCycle(S) == {g \in DOMAIN S : g \in Descendants(S, g)}

\* the keys reachable from fg along zero or more feeder edges
ReachableFrom(S, fg) == IF fg \in DOMAIN S THEN {fg} \cup Descendants(S, fg) ELSE {}

\* the feeder slots <<game, side>> that list g
ListingSlots(S, g) == {x \in (DOMAIN S) \X {1, 2} : S[x[1]][x[2]] = g}

\* of those, the slots of another game whose pair has both slots non-null
CountedSlots(S, g) ==
    {x \in ListingSlots(S, g) :
        x[1] # g /\ S[x[1]][1] # Null /\ S[x[1]][2] # Null}

Reported == Range(errors)

Validated == status # "raw"

\* the topology is a binary tree rooted at fg
IsBinaryTree(S, fg) ==
    /\ fg \in DOMAIN S
    /\ \A g \in DOMAIN S :
          \/ S[g] = <<Null, Null>>
          \/ S[g][1] \in DOMAIN S \ {g} /\ S[g][2] \in DOMAIN S \ {g}
    /\ \A g \in DOMAIN S :
          Cardinality(ListingSlots(S, g)) = (IF g = fg THEN 0 ELSE 1)
    /\ OnCycle(S) = {}
    /\ ReachableFrom(S, fg) = DOMAIN S

IsAscending(s) == \A i \in 1..(Len(s) - 1) : s[i] < s[i + 1]

----------------------------------------------------------------------------
(* The claims. *)

\* C1: with an empty assignment map, construction succeeds if and only if the
\* topology is a binary tree rooted at final_game (final_game is a key; every
\* feeder pair is (None, None) or two existing games other than the game
\* itself; every non-final game is listed by exactly one feeder slot and the
\* final game by none; no feeder cycle; every game reachable from final_game).
C1_AcceptsExactlyTrees ==
    (Validated /\ games = <<>>) =>
        ((status = "ok") <=> IsBinaryTree(structure, final_game))

\* a three-game tree was accepted
C1_Witness ==
    /\ status = "ok"
    /\ games = <<>>
    /\ Cardinality(DOMAIN structure) = 3
    /\ IsBinaryTree(structure, final_game)

C3_AsStated ==
    (Validated /\ OnCycle(structure) # {}) =>
        /\ status = "invalid"
        /\ \E m \in Reported : m.kind = "cycle" /\ m.game \in OnCycle(structure)

\* C3 (amended): whenever final_game is a key and a game reachable from
\* final_game lies on a feeder cycle, construction fails with a "Cycle
\* detected at game N" message, N on a feeder cycle.
C3_ReachableCycleReported ==
    (Validated /\ ReachableFrom(structure, final_game) \cap OnCycle(structure) # {}) =>
        /\ status = "invalid"
        /\ \E m \in Reported : m.kind = "cycle" /\ m.game \in OnCycle(structure)

\* a cycle of two games below the final game was reported
C3_Witness ==
    /\ status = "invalid"
    /\ final_game \in DOMAIN structure
    /\ final_game \notin OnCycle(structure)
    /\ Cardinality(OnCycle(structure)) = 2
    /\ \E m \in Reported : m.kind = "cycle" /\ m.game \in OnCycle(structure)

\* C4: whenever final_game is a key and some key is not reachable from it,
\* construction fails and the list after "unreachable games:" holds exactly
\* the keys not reachable from final_game, in ascending order.
C4_UnreachableListed ==
    LET unreachable == DOMAIN structure \ ReachableFrom(structure, final_game)
    IN  (Validated /\ final_game \in DOMAIN structure /\ unreachable # {}) =>
            /\ status = "invalid"
            /\ \E m \in Reported : m.kind = "unreachable"
            /\ \A m \in Reported :
                  m.kind = "unreachable" =>
                      /\ Range(m.list) = unreachable
                      /\ Len(m.list) = Cardinality(unreachable)
                      /\ IsAscending(m.list)
                      /\ m.game = final_game

\* two unreachable games were listed after a traversal that met a cycle
C4_Witness ==
    /\ status = "invalid"
    /\ \E m \in Reported : m.kind = "cycle"
    /\ \E m \in Reported : m.kind = "unreachable" /\ Len(m.list) = 2


\* the current object as a graph value
Current == GraphOf(final_game, structure, games)

InternalGames(S) == {g \in DOMAIN S : S[g] # <<Null, Null>>}

SideKind(side) == IF side = 1 THEN "not_derivable_left" ELSE "not_derivable_right"

DeriveKinds == {"not_derivable_left", "not_derivable_right"}

\* no assignment-key or duplicate-team violation (rules 8 and 9)
AssignmentsWellFormed(S, G) ==
    /\ DOMAIN G \subseteq DOMAIN S
    /\ \A g \in DOMAIN G : G[g][1] = Null \/ G[g][1] # G[g][2]

\* the "not derivable" message for the team in slot `side` of game g
NotDerivableMsg(S, G, g, side) ==
    Msg(SideKind(side), g, G[g][side], S[g][side],
        Sorted(possibleWinners(S, G, S[g][side])))

\* C5 as stated (on tree topologies, where possibleWinners is defined): a team
\* in a slot of an internal game that is not in possibleWinners of that slot's
\* feeder makes construction fail with a "not derivable" message naming the
\* game, the team, the feeder and the feeder's possible set; a team that is in
\* the set produces no such message.
C5_AsStated ==
    (Validated /\ IsBinaryTree(structure, final_game)) =>
        \A g \in InternalGames(structure) \cap DOMAIN games : \A side \in {1, 2} :
            games[g][side] # Null =>
                IF games[g][side] \notin possibleWinners(structure, games, structure[g][side])
                THEN /\ status = "invalid"
                     /\ NotDerivableMsg(structure, games, g, side) \in Reported
                ELSE \A m \in Reported :
                        ~(m.kind = SideKind(side) /\ m.game = g)

\* C5 (amended): the same, provided no earlier check group reported an error
\* (the topology is valid, every assignment key is a game, no game holds one
\* team in both slots); otherwise the derivability check is not run.
C5_NotDerivableMessage ==
    (/\ Validated
     /\ IsBinaryTree(structure, final_game)
     /\ AssignmentsWellFormed(structure, games)) =>
        \A g \in InternalGames(structure) \cap DOMAIN games : \A side \in {1, 2} :
            games[g][side] # Null =>
                IF games[g][side] \notin possibleWinners(structure, games, structure[g][side])
                THEN /\ status = "invalid"
                     /\ NotDerivableMsg(structure, games, g, side) \in Reported
                ELSE \A m \in Reported :
                        ~(m.kind = SideKind(side) /\ m.game = g)

\* a team was reported not derivable from an internal feeder whose possible
\* set is not empty, while the other slot's team was accepted
C5_Witness ==
    /\ status = "invalid"
    /\ \E m \in Reported :
          /\ m.kind = "not_derivable_left"
          /\ structure[m.aux] # <<Null, Null>>
          /\ Len(m.list) > 0
          /\ games[m.game][2] # Null
          /\ \A n \in Reported : n.kind # "not_derivable_right"

CheckGroups == {"final", "shape", "fanin", "leaf", "reach", "assign"}

OnlyDeriveMessages == \A m \in Reported : m.kind \in DeriveKinds

\* what each always-run group reports, stated on the input alone
GroupsReport ==
    /\ (final_game \notin DOMAIN structure)
          <=> (Msg("final_missing", final_game, Null, Null, <<>>) \in Reported)
    /\ (LeavesOf(structure) = {})
          <=> (Msg("noleaf", Null, Null, Null, <<>>) \in Reported)
    /\ \A g \in DOMAIN structure :
          /\ ((structure[g][1] = Null) # (structure[g][2] = Null))
                <=> (Msg("mixed", g, Null, Null, structure[g]) \in Reported)
          /\ (Cardinality(CountedSlots(structure, g)) # (IF g = final_game THEN 0 ELSE 1))
                <=> (\E m \in Reported : m.kind \in {"fanin", "fanin_final"} /\ m.game = g)
          /\ (structure[g][1] # Null /\ structure[g][2] # Null) =>
                /\ (g \in {structure[g][1], structure[g][2]})
                      <=> (Msg("self", g, Null, Null, <<>>) \in Reported)
                /\ \A side \in {1, 2} :
                      (structure[g][side] \notin DOMAIN structure)
                          <=> (Msg("missing", g, structure[g][side], Null, <<>>) \in Reported)
    /\ \A g \in DOMAIN games :
          /\ (g \notin DOMAIN structure)
                <=> (Msg("unknown_game", g, Null, Null, <<>>) \in Reported)
          /\ (g \in DOMAIN structure /\ games[g][1] # Null /\ games[g][1] = games[g][2])
                <=> (Msg("duplicate", g, games[g][1], Null, <<>>) \in Reported)

\* C6 as stated: every group but derivability runs and reports whatever the
\* other groups found; derivability alone is skipped, exactly when an earlier
\* group found an error.
C6_AsStated ==
    Validated =>
        /\ CheckGroups \subseteq ran
        /\ ("derive" \in ran) <=> OnlyDeriveMessages
        /\ GroupsReport

\* C6 (amended): the groups final_game-membership, feeder-pair shape, fan-in,
\* leaf-existence and assignment-key/duplicate-team run and report whatever
\* the other groups found; the cycle/reachability group runs exactly when
\* final_game is a key of structure (it is skipped when the membership check
\* failed); derivability runs exactly when no earlier group found an error.
C6_GroupsRun ==
    Validated =>
        /\ (CheckGroups \ {"reach"}) \subseteq ran
        /\ ("reach" \in ran) <=> (final_game \in DOMAIN structure)
        /\ (final_game \notin DOMAIN structure) =>
              \A m \in Reported : m.kind \notin {"cycle", "unreachable"}
        /\ (final_game \in DOMAIN structure) =>
              ((DOMAIN structure \ ReachableFrom(structure, final_game) # {})
                  <=> (\E m \in Reported : m.kind = "unreachable"))
        /\ ("derive" \in ran) <=> OnlyDeriveMessages
        /\ GroupsReport

\* one failure carried a shape, a fan-in, a cycle and an assignment message
C6_Witness ==
    /\ status = "invalid"
    /\ \E m \in Reported : m.kind = "mixed"
    /\ \E m \in Reported : m.kind = "fanin"
    /\ \E m \in Reported : m.kind = "cycle"
    /\ \E m \in Reported : m.kind \in {"unknown_game", "duplicate"}
    /\ "derive" \notin ran

\* C8: serialising a constructed graph to the output record and parsing the
\* record succeeds and yields the same final_game, topology and assignments,
\* after every number of round trips.
C8_RoundTrip ==
    (trips > 0) => (status = "ok" /\ original.set /\ Current = original.graph)

\* two round trips of a graph with assignments and a two-digit game id
C8_Witness ==
    /\ trips = 2
    /\ status = "ok"
    /\ games # <<>>
    /\ \E g \in DOMAIN structure : g >= 10
    /\ Current = original.graph


Rendered == render.status # "none"

\* C7: to_ascii_bracket accepts exactly the modes "ascii" and "box": a call
\* with any other mode fails with a configuration error and returns nothing,
\* as a call with name_width <= 0 does.
C7_AsStated ==
    Rendered =>
        ((render.status = "raised")
            <=> (render.mode \notin {"ascii", "box"} \/ render.name_width <= 0))

\* C9: for every constructed graph and every name_width >= 1, the bounds
\* check of put drops no write: every put call of a rendering lies inside the
\* canvas of height 5 * leaves and width name_width + 1 + 12 * round + 12.
C9_AsStated ==
    (render.status = "returned") =>
        /\ render.max_y = 5 * Cardinality(LeavesOf(structure))
        /\ render.max_x = render.name_width + 1 + 12 * game_round(structure, final_game) + 12
        /\ render.dropped = {}

\* the leaves in post-order from g: left feeder subtree before right
RECURSIVE PostOrderLeaves(_, _)
PostOrderLeaves(S, g) ==
    IF S[g] = <<Null, Null>> THEN <<g>>
    ELSE PostOrderLeaves(S, S[g][1]) \o PostOrderLeaves(S, S[g][2])

\* C10 as stated: the k-th leaf visited in post-order from final_game
\* (k = 0, 1, ...) has its slot rows at 5k + 1 and 5k + 3 and its center row
\* at 5k + 1; the canvas height is 5 times the number of leaves.
C10_AsStated ==
    (render.status = "returned") =>
        LET leaves == PostOrderLeaves(structure, final_game)
        IN  /\ \A i \in 1..Len(leaves) :
                  /\ render.slot_y[<<leaves[i], 0>>] = 5 * (i - 1) + 1
                  /\ render.slot_y[<<leaves[i], 1>>] = 5 * (i - 1) + 3
                  /\ render.center_y[leaves[i]] = 5 * (i - 1) + 1
            /\ render.max_y = 5 * Len(leaves)

\* C10 (amended): the same with the center row at 5k + 2, the row between
\* the two slot rows (row+2 of the band).
C10_LeafBands ==
    (render.status = "returned") =>
        LET leaves == PostOrderLeaves(structure, final_game)
        IN  /\ \A i \in 1..Len(leaves) :
                  /\ render.slot_y[<<leaves[i], 0>>] = 5 * (i - 1) + 1
                  /\ render.slot_y[<<leaves[i], 1>>] = 5 * (i - 1) + 3
                  /\ render.center_y[leaves[i]] = 5 * (i - 1) + 2
            /\ render.max_y = 5 * Len(leaves)

\* a rendered tree of four leaves of unequal depth whose post-order is not
\* the order of their ids
C10_Witness ==
    /\ render.status = "returned"
    /\ LET leaves == PostOrderLeaves(structure, final_game)
       IN  /\ Len(leaves) = 4
           /\ \E i \in 1..3 : leaves[i] > leaves[i + 1]
           /\ \E i, j \in 1..4 :
                 /\ leaves[i] \in {structure[final_game][1], structure[final_game][2]}
                 /\ leaves[j] \notin {structure[final_game][1], structure[final_game][2]}
           /\ render.center_y[leaves[4]] = 17

\* lines 173-181: the non-final games for which the test
\* target_y == center_y[game_id] of line 179 fails, i.e. the games the
\* drawing loop leaves without a bridge to their parent
BridgeSkipped(S, order, fg, slot_y, center_y) ==
    LET pbg == parent_by_game(S, order)
    IN  {game_id \in DOMAIN S \ {fg} :
            \/ game_id \notin DOMAIN pbg
            \/ LET parent_game == pbg[game_id][1]
                   side == pbg[game_id][2]
                   target_y == slot_y[<<parent_game, side>>]
               IN  target_y # center_y[game_id]}

\* C11: after vertical slot assignment on a constructed graph, every
\* non-final game's center row equals the slot row its parent reserved for
\* it, so the drawing loop draws the parent bridge for every non-final game
\* (the branch without a bridge is never taken); and every internal game's
\* center row lies strictly between its top and its bottom slot row.
C11_ParentSlotIsCenter ==
    (render.status = "returned") =>
        /\ \A g \in DOMAIN structure \ {final_game} :
              \E p \in InternalGames(structure), side \in {0, 1} :
                 /\ structure[p][side + 1] = g
                 /\ render.slot_y[<<p, side>>] = render.center_y[g]
        /\ BridgeSkipped(structure, structure_order, final_game,
                         render.slot_y, render.center_y) = {}
        /\ \A g \in InternalGames(structure) :
              /\ render.slot_y[<<g, 0>>] < render.center_y[g]
              /\ render.center_y[g] < render.slot_y[<<g, 1>>]

\* a rendered tree of four leaves in which a leaf feeds the final game of
\* round 3 directly (its bridge spans three rounds), with an internal game
\* whose slot rows have an odd sum and one whose slot rows have an even sum
C11_Witness ==
    /\ render.status = "returned"
    /\ game_round(structure, final_game) = 3
    /\ \E side \in {1, 2} : structure[final_game][side] \in LeavesOf(structure)
    /\ \E g, h \in InternalGames(structure) :
          /\ g # final_game
          /\ (render.slot_y[<<g, 0>>] + render.slot_y[<<g, 1>>]) % 2 = 1
          /\ (render.slot_y[<<h, 0>>] + render.slot_y[<<h, 1>>]) % 2 = 0
          /\ render.slot_y[<<final_game, 0>>] = render.center_y[structure[final_game][1]]

\* the team ids held by the slots of the leaf games of the subtree rooted at g
RECURSIVE LeafTeams(_, _, _)
LeafTeams(S, G, g) ==
    IF S[g] = <<Null, Null>>
    THEN {GetPair(G, g)[1], GetPair(G, g)[2]} \ {Null}
    ELSE LeafTeams(S, G, S[g][1]) \cup LeafTeams(S, G, S[g][2])

\* C12: in a constructed graph, possibleWinners of every game is a subset of
\* the team ids assigned to slots of the leaf games of that game's subtree;
\* and every team assigned to the left (right) slot of an internal game is
\* assigned in a leaf game of that game's left (right) feeder subtree.
C12_WinnersAreLeafTeams ==
    (status = "ok") =>
        /\ \A g \in DOMAIN structure :
              possibleWinners(structure, games, g) \subseteq LeafTeams(structure, games, g)
        /\ \A g \in InternalGames(structure), side \in {1, 2} :
              GetPair(games, g)[side] # Null
                 => GetPair(games, g)[side] \in LeafTeams(structure, games, structure[g][side])

\* a constructed graph in which an internal game and the internal game it
\* feeds both hold an assigned team, and the feeder's possible winners are a
\* proper subset of the teams of its leaves
C12_Witness ==
    /\ status = "ok"
    /\ \E p, g \in InternalGames(structure), side, below \in {1, 2} :
          /\ structure[p][side] = g
          /\ GetPair(games, p)[side] # Null
          /\ GetPair(games, g)[below] # Null
          /\ possibleWinners(structure, games, g) # LeafTeams(structure, games, g)
          /\ possibleWinners(structure, games, g) # {}


=============================================================================
